---- MODULE Spec2Model ----
(***************************************************************************)
(* Model of src/model.py: the RC-discharge pacemaker simulation.           *)
(*                                                                         *)
(* Number representation.  The program computes in float64; the model      *)
(* computes in decimal fixed point, rounding to nearest after every        *)
(* multiplication and division, as the floating-point unit does:           *)
(*   - voltages and dimensionless factors: integer multiples of 1/Scale    *)
(*     (1 V = Scale units, exp(0) = Scale);                                *)
(*   - exp is evaluated internally at Scale8 = Scale^2 and rounded once;   *)
(*   - resistances in ohm, capacitances in microfarad, so that             *)
(*     tau = R * C is in microseconds;                                     *)
(*   - time in ticks of t_max/(num_points-1) of the default sampling       *)
(*     window (0.05 s / 199), so that 1 s = TicksPerSecond ticks and one   *)
(*     tick = TickMicroNum / TickMicroDen microseconds;                    *)
(*   - NaN and Inf are the IEEE specials numpy produces on division by     *)
(*     zero and on overflow.                                               *)
(***************************************************************************)
EXTENDS Integers, Sequences, FiniteSets, TLC

\* ------------------------------------------------------------------------
\* Fixed-point arithmetic
\* ------------------------------------------------------------------------
Scale == 10000
Scale8 == 100000000
TicksPerSecond == 3980
TickMicroNum == 50000
TickMicroDen == 199
MaxFinite == 400000000
Inf == 2000000001
NaN == 2000000002

IsSpecial(x) == x = Inf \/ x = -Inf \/ x = NaN
IsFinite(x) == ~IsSpecial(x)

Abs(x) == IF x < 0 THEN -x ELSE x
Sign(x) == IF x < 0 THEN -1 ELSE IF x > 0 THEN 1 ELSE 0
Max(a, b) == IF a >= b THEN a ELSE b

\* a / b rounded to nearest, a >= 0, b > 0
DivRound(a, b) == (a + b \div 2) \div b

\* a * b / Scale8 for 0 <= a, b <= 3 * Scale8, by 4-digit limbs (no overflow)
MulFix8(a, b) ==
    LET a1 == a \div Scale
        a0 == a % Scale
        b1 == b \div Scale
        b0 == b % Scale
    IN  a1 * b1 + (a1 * b0 + a0 * b1 + (a0 * b0) \div Scale) \div Scale

\* digits of rem / den (0 <= rem < den) at scale 100^n, by long division
RECURSIVE FracDigits(_, _, _)
FracDigits(rem, den, n) ==
    IF n = 0 THEN 0
    ELSE LET d == (rem * 100) \div den
             r == (rem * 100) % den
         IN  d * (100 ^ (n - 1)) + FracDigits(r, den, n - 1)

\* exp(-1) and the series of exp(-f), 0 <= f < 1, at Scale8
EInv8 == 36787944
RECURSIVE ExpSeries8(_, _, _)
ExpSeries8(f, j, term) ==
    IF term = 0 THEN 0
    ELSE term - ExpSeries8(f, j + 1, MulFix8(term, f) \div (j + 1))

RECURSIVE EInvPow8(_)
EInvPow8(n) ==
    IF n = 0 THEN Scale8
    ELSE IF n > 20 THEN 0
    ELSE MulFix8(EInvPow8(n - 1), EInv8)

\* exp(-num/den) at Scale8, num >= 0, den > 0
ExpNeg8(num, den) ==
    LET n == num \div den
        f == FracDigits(num % den, den, 4)
    IN  MulFix8(EInvPow8(n), ExpSeries8(f, 0, Scale8))

\* the series of exp(f), 0 <= f < 1, at Scale8
RECURSIVE ExpSeriesPos8(_, _, _)
ExpSeriesPos8(f, j, term) ==
    IF term = 0 THEN 0
    ELSE term + ExpSeriesPos8(f, j + 1, MulFix8(term, f) \div (j + 1))

\* np.exp(1)
E == 27183

\* |a| * |b| / Scale rounded to nearest by 4-digit limbs; Inf past MaxFinite
MulAbs(a, b) ==
    LET a1 == a \div Scale
        a0 == a % Scale
        b1 == b \div Scale
        b0 == b % Scale
    IN  IF a1 > 0 /\ b1 > (MaxFinite \div Scale) \div a1 THEN Inf
        ELSE LET p == a1 * b1 * Scale + a1 * b0 + a0 * b1
                        + DivRound(a0 * b0, Scale)
             IN  IF p > MaxFinite THEN Inf ELSE p

\* a * b / Scale rounded to nearest, with the IEEE specials and overflow
Mul(a, b) ==
    IF a = NaN \/ b = NaN THEN NaN
    ELSE IF IsSpecial(a) \/ IsSpecial(b)
         THEN IF a = 0 \/ b = 0 THEN NaN
              ELSE IF Sign(a) * Sign(b) > 0 THEN Inf ELSE -Inf
    ELSE Sign(a) * Sign(b) * MulAbs(Abs(a), Abs(b))

\* exp(n) at Scale for a natural n
RECURSIVE EPow(_)
EPow(n) ==
    IF n = 0 THEN Scale
    ELSE IF n > 25 THEN Inf
    ELSE Mul(EPow(n - 1), E)

\* np.exp(num/den) at Scale, den > 0; overflow gives Inf
Exp(num, den) ==
    IF num <= 0 THEN DivRound(ExpNeg8(-num, den), Scale)
    ELSE Mul(EPow(num \div den),
             DivRound(ExpSeriesPos8(FracDigits(num % den, den, 4), 0, Scale8), Scale))

\* np.max of an array
SeqMax(q) == CHOOSE x \in {q[j] : j \in DOMAIN q} : \A j \in DOMAIN q : q[j] <= x

\* ------------------------------------------------------------------------
\* single_pulse
\* ------------------------------------------------------------------------
T_MAX == 199
NUM_POINTS == 200

\* mutant: the endpoint left out (step stop/num, as with endpoint=False)
LinspaceNoEndpoint(stop, num) ==
    [k \in 1..num |-> DivRound((k - 1) * stop, num)]

\* np.linspace(0, stop, num): num samples, step stop/(num-1), last one = stop
Linspace(stop, num) ==
    [k \in 1..num |->
        IF num = 1 THEN 0
        ELSE IF k = num THEN stop
        ELSE DivRound((k - 1) * stop, num - 1)]

\* np.exp(-t / tau), t >= 0 in ticks, tau in microseconds
ExpDecay(t, tau) ==
    IF tau = 0 THEN (IF t = 0 THEN NaN ELSE 0)
    ELSE IF tau > 0 THEN Exp(-(t * TickMicroNum), TickMicroDen * tau)
    ELSE Exp(t * TickMicroNum, TickMicroDen * (-tau))

\* mutant: the sign of the exponent lost
SinglePulseGrowing(V0, R, C, t_max, num_points) ==
    LET tau == R * C
        t == Linspace(t_max, num_points)
        Vc == [k \in 1..num_points |-> Mul(V0, ExpDecay(t[k], -tau))]
    IN  [t |-> t, Vc |-> Vc]

\* mutant: the time constant taken as R alone
SinglePulseTauR(V0, R, C, t_max, num_points) ==
    LET t == Linspace(t_max, num_points)
        Vc == [k \in 1..num_points |-> Mul(V0, ExpDecay(t[k], R))]
    IN  [t |-> t, Vc |-> Vc]

SinglePulse(V0, R, C, t_max, num_points) ==
    LET tau == R * C
        t == Linspace(t_max, num_points)
        Vc == [k \in 1..num_points |-> Mul(V0, ExpDecay(t[k], tau))]
    IN  [t |-> t, Vc |-> Vc]

\* ------------------------------------------------------------------------
\* adaptive_feedback
\* ------------------------------------------------------------------------
\* mutant: the floor taken as V_min itself, without the factor e
AdaptiveFeedbackNoE(V0_target, R, C, V_min) == Max(V0_target, V_min)

\* mutant: the floor returned whatever the requested voltage
AdaptiveFeedbackFloorOnly(V0_target, R, C, V_min) == Mul(V_min, E)

\* mutant: the voltage raised by the floor instead of raised to it
AdaptiveFeedbackRaiseBy(V0_target, R, C, V_min) == V0_target + Mul(V_min, E)

\* mutant: the floor taken at a fixed 10 ms after onset instead of at tau
AdaptiveFeedbackFixedTime(V0_target, R, C, V_min) ==
    IF R * C > 0 THEN Max(V0_target, Mul(V_min, Exp(10000, R * C)))
    ELSE Max(V0_target, Mul(V_min, E))

AdaptiveFeedback(V0_target, R, C, V_min) ==
    LET V0_min_required == Mul(V_min, E)
    IN  Max(V0_target, V0_min_required)

\* ------------------------------------------------------------------------
\* calculate_energy_metrics. Power is in units of 1e-5 W; np.gradient is kept
\* doubled (in half ticks) so that the central difference stays an integer;
\* energy is in units of 1e-5 W times half a tick. Stated for R > 0.
\* ------------------------------------------------------------------------
\* V**2 / R
Power(V, R) == DivRound(Mul(V, V) * 10, R)

\* mutant: forward differences, as np.diff would give
GradientForward(t) ==
    [k \in 1..Len(t) |->
        IF k = Len(t) THEN 2 * (t[k] - t[k - 1]) ELSE 2 * (t[k + 1] - t[k])]

\* np.gradient(t), doubled: central differences inside, one-sided at the ends
Gradient(t) ==
    [k \in 1..Len(t) |->
        IF k = 1 THEN 2 * (t[2] - t[1])
        ELSE IF k = Len(t) THEN 2 * (t[k] - t[k - 1])
        ELSE t[k + 1] - t[k - 1]]

\* np.cumsum, computed by halves
RECURSIVE CumSum(_)
CumSum(x) ==
    IF Len(x) <= 1 THEN x
    ELSE LET h == Len(x) \div 2
             lower == CumSum(SubSeq(x, 1, h))
             upper == CumSum(SubSeq(x, h + 1, Len(x)))
         IN  lower \o [k \in 1..Len(upper) |-> upper[k] + lower[h]]

\* np.sum
SeqSum(x) == IF x = <<>> THEN 0 ELSE CumSum(x)[Len(x)]

\* sum(power * np.gradient(t)) over the arrays given
IntegratePower(t, V, R_arr) ==
    LET dt == Gradient(t)
    IN  CumSum([k \in 1..Len(t) |-> Power(V[k], R_arr[k]) * dt[k]])

CalculateEnergyMetrics(t, V, R_arr) ==
    LET power == [k \in 1..Len(V) |-> Power(V[k], R_arr[k])]
        dt == Gradient(t)
        energy_cumulative == CumSum([k \in 1..Len(t) |-> power[k] * dt[k]])
        total_energy == energy_cumulative[Len(energy_cumulative)]
        peak_power == SeqMax(power)
        average_power == DivRound(SeqSum(power), Len(power))
    IN  [computed |-> TRUE,
         power |-> power,
         energy_cumulative |-> energy_cumulative,
         total_energy |-> total_energy,
         peak_power |-> peak_power,
         average_power |-> average_power]

\* ------------------------------------------------------------------------
\* validate_parameters. tau and the pulse duration are in microseconds
\* (R in ohm times C in uF): 0.5 ms = 500, 2.0 ms = 2000; 15.0 V = 150000.
\* ------------------------------------------------------------------------
ValidateParameters(V0, R, C, V_min) ==
    LET tau == R * C
        V_at_tau == Mul(V0, Exp(-1, 1))
        is_effective == V_at_tau >= V_min
        is_safe == V0 <= 150000
        pulse_duration == 3 * tau
        is_duration_ok == 500 <= pulse_duration /\ pulse_duration <= 2000
    IN  [tau_ms |-> tau,
         V_at_tau |-> V_at_tau,
         is_effective |-> is_effective,
         is_safe |-> is_safe,
         pulse_duration_ms |-> pulse_duration,
         is_duration_ok |-> is_duration_ok,
         overall_valid |-> is_effective /\ is_safe /\ is_duration_ok]

\* ------------------------------------------------------------------------
\* State
\* ------------------------------------------------------------------------
VARIABLES
    args,             \* the arguments of the simulate_multiple_beats call
    pc,               \* "idle", "loop", "done" (returned) or "error" (raised)
    error,            \* the exception that left the call, "none" if none
    beat,             \* the loop variable of `for beat in range(num_beats)`
    t_global,         \* list of the shifted time arrays, one per beat
    V_global,         \* list of the voltage arrays, one per beat
    R_values,         \* resistance, one entry per sample
    V0_used,          \* applied V0, one entry per sample
    beat_boundaries,  \* list of (start_idx, end_idx)
    t_offset,         \* accumulated time offset
    total_index,      \* samples appended so far
    R_current,        \* resistance of the last beat computed
    V0_current,       \* initial voltage of the last beat computed
    t_total,          \* np.concatenate(t_global), set on return
    V_total,          \* np.concatenate(V_global), set on return
    rng,              \* values drawn so far from numpy's global random source
    call,             \* a direct call of a pure function: its name and arguments
    cpc,              \* "idle", "call", "returned" or "returned2"
    ret,              \* what the direct call returned
    call2,            \* a second direct call, made after the first returned
    ret2,             \* what the second direct call returned
    inv,              \* concurrent invocations: the locals of each
    seed,             \* the seed of numpy's global random source
    metrics,          \* what calculate_energy_metrics returned for the simulation
    view              \* what the dashboard shows for the simulation

simVars == <<args, pc, error, beat, t_global, V_global, R_values, V0_used,
             beat_boundaries, t_offset, total_index, R_current, V0_current,
             t_total, V_total, rng>>
callVars == <<call, cpc, ret, call2, ret2>>
twoVars == <<inv, seed>>
dashVars == <<metrics, view>>
vars == <<args, pc, error, beat, t_global, V_global, R_values, V0_used,
          beat_boundaries, t_offset, total_index, R_current, V0_current,
          t_total, V_total, rng, call, cpc, ret, call2, ret2, inv, seed,
          metrics, view>>

\* ------------------------------------------------------------------------
\* Bounds and input sets
\* ------------------------------------------------------------------------
MaxBeats == 3
UGrid == 2

NoArgs == [V0_user |-> 0, R_base |-> 0, C |-> 0, num_beats |-> 0, interval |-> 0,
           use_feedback |-> FALSE, V_min |-> 0, arrhythmia_mode |-> FALSE,
           R_min |-> 0, R_max |-> 0]
NoCall == [fn |-> "none"]
NoMetrics == [computed |-> FALSE]
NoView == [rendered |-> FALSE]

\* mutant: the arrays joined last to first
RECURSIVE ConcatenateReversed(_)
ConcatenateReversed(arrays) ==
    IF arrays = <<>> THEN <<>>
    ELSE ConcatenateReversed(Tail(arrays)) \o Head(arrays)

\* np.concatenate of a list of arrays
RECURSIVE Concatenate(_)
Concatenate(arrays) ==
    IF arrays = <<>> THEN <<>>
    ELSE Head(arrays) \o Concatenate(Tail(arrays))

\* mutant: one entry too few per beat
RepeatShort(x, n) == [k \in 1..(n - 1) |-> x]

\* [x] * n
Repeat(x, n) == [k \in 1..n |-> x]

\* np.random.uniform(low, high) = low + (high - low) * u, u = n/UGrid in [0, 1)
Uniform(low, high, n) ==
    IF high >= low THEN low + ((high - low) * n) \div UGrid
    ELSE low - ((low - high) * n) \div UGrid

\* arguments that meet the documented preconditions
ValidArgs ==
    { a \in [V0_user : {20000, 50000}, R_base : {500}, C : {20},
             num_beats : 1..MaxBeats, interval : {0, 199, 1990, 3980},
             use_feedback : BOOLEAN, V_min : {10000, 20000},
             arrhythmia_mode : BOOLEAN, R_min : {300, 500}, R_max : {500, 1000}] :
        /\ (~a.use_feedback => a.V_min = 10000)
        /\ (~a.arrhythmia_mode => a.R_min = 300 /\ a.R_max = 1000)
        /\ (a.arrhythmia_mode => a.interval = 3980 /\ a.V_min = 10000)
        /\ (a.arrhythmia_mode => <<a.R_min, a.R_max>> \in {<<300, 1000>>, <<500, 500>>}) }

BaseArgs == [V0_user |-> 50000, R_base |-> 500, C |-> 20, num_beats |-> 2,
             interval |-> 3980, use_feedback |-> FALSE, V_min |-> 10000,
             arrhythmia_mode |-> FALSE, R_min |-> 300, R_max |-> 1000]

\* arguments that break one precondition
InvalidArgs ==
    { [BaseArgs EXCEPT !.num_beats = n, !.use_feedback = f] :
          n \in {-1, 0}, f \in BOOLEAN }
    \cup { [BaseArgs EXCEPT !.interval = -3980, !.num_beats = n] : n \in 1..MaxBeats }
    \cup { [BaseArgs EXCEPT !.R_base = r, !.use_feedback = f] :
               r \in {0, -500}, f \in BOOLEAN }
    \cup { [BaseArgs EXCEPT !.C = c] : c \in {0, -20} }
    \cup { [BaseArgs EXCEPT !.arrhythmia_mode = TRUE, !.R_min = m[1], !.R_max = m[2]] :
               m \in {<<1000, 300>>, <<0, 500>>, <<-300, 300>>} }

\* valid arguments with beats closer together than the pulse window
OverlapArgs ==
    { [BaseArgs EXCEPT !.interval = 100, !.num_beats = n] : n \in 1..MaxBeats }

ArgsSet == ValidArgs \cup InvalidArgs \cup OverlapArgs

\* ------------------------------------------------------------------------
\* simulate_multiple_beats
\* ------------------------------------------------------------------------
Init ==
    /\ args \in ArgsSet
    /\ pc = "loop"
    /\ error = "none"
    /\ beat = 0
    /\ t_global = <<>>
    /\ V_global = <<>>
    /\ R_values = <<>>
    /\ V0_used = <<>>
    /\ beat_boundaries = <<>>
    /\ t_offset = 0
    /\ total_index = 0
    /\ R_current = 0
    /\ V0_current = 0
    /\ t_total = <<>>
    /\ V_total = <<>>
    /\ rng = 0
    /\ call = NoCall
    /\ cpc = "idle"
    /\ ret = <<>>
    /\ call2 = NoCall
    /\ ret2 = <<>>
    /\ inv = <<>>
    /\ seed = 0
    /\ metrics = NoMetrics
    /\ view = NoView

\* mutant: the two branches of the arrhythmia test swapped
SelectResistanceSwapped(a, n) ==
    IF a.arrhythmia_mode THEN a.R_base ELSE Uniform(a.R_min, a.R_max, n)

\* the resistance of one beat; n is the value the random source yields
SelectResistance(a, n) ==
    IF a.arrhythmia_mode THEN Uniform(a.R_min, a.R_max, n) ELSE a.R_base

\* mutant: the feedback floor applied whether or not use_feedback is set
SelectVoltageAlwaysAdjusted(a, R) == AdaptiveFeedback(a.V0_user, R, a.C, a.V_min)

\* the initial voltage of one beat
SelectVoltage(a, R) ==
    IF a.use_feedback THEN AdaptiveFeedback(a.V0_user, R, a.C, a.V_min)
    ELSE a.V0_user

\* mutant: the end index taken as the last sample instead of one past it
BoundaryInclusiveEnd(total, pulse_length) == <<total, total + pulse_length - 1>>

\* start_idx, end_idx of the beat appended at total_index
Boundary(total, pulse_length) == <<total, total + pulse_length>>

\* mutant: the offset not added
ShiftTimeDropped(t_pulse, offset) == t_pulse

\* t_pulse + t_offset
ShiftTime(t_pulse, offset) == [k \in DOMAIN t_pulse |-> t_pulse[k] + offset]

\* mutant: the offset assigned instead of accumulated
NextOffsetAssign(offset, interval) == interval

\* t_offset += interval
NextOffset(offset, interval) == offset + interval

\* mutant: the draw made on every beat, in or out of arrhythmia mode
NextRngAlways(a, r) == r + 1

\* the random source after one beat: one value consumed in arrhythmia mode
NextRng(a, r) == IF a.arrhythmia_mode THEN r + 1 ELSE r

\* one iteration of the loop over range(num_beats)
Beat ==
    /\ pc = "loop"
    /\ beat < args.num_beats
    /\ \E n \in (IF args.arrhythmia_mode THEN 0..(UGrid - 1) ELSE {0}) :
        LET R == SelectResistance(args, n)
            V0 == SelectVoltage(args, R)
            pulse == SinglePulse(V0, R, args.C, T_MAX, NUM_POINTS)
            t_pulse_shifted == ShiftTime(pulse.t, t_offset)
            pulse_length == Len(pulse.t)
            bounds == Boundary(total_index, pulse_length)
        IN  /\ R_current' = R
            /\ V0_current' = V0
            /\ t_global' = Append(t_global, t_pulse_shifted)
            /\ V_global' = Append(V_global, pulse.Vc)
            /\ R_values' = R_values \o Repeat(R, pulse_length)
            /\ V0_used' = V0_used \o Repeat(V0, pulse_length)
            /\ beat_boundaries' = Append(beat_boundaries, bounds)
            /\ total_index' = bounds[2]
    /\ rng' = NextRng(args, rng)
    /\ t_offset' = NextOffset(t_offset, args.interval)
    /\ beat' = beat + 1
    /\ UNCHANGED <<args, pc, error, t_total, V_total>>
    /\ UNCHANGED callVars
    /\ UNCHANGED twoVars
    /\ UNCHANGED dashVars

\* the loop is over and there is a pulse to concatenate: the call returns
Return ==
    /\ pc = "loop"
    /\ ~(beat < args.num_beats)
    /\ t_global # <<>>
    /\ t_total' = Concatenate(t_global)
    /\ V_total' = Concatenate(V_global)
    /\ pc' = "done"
    /\ UNCHANGED <<args, error, beat, t_global, V_global, R_values, V0_used,
                   beat_boundaries, t_offset, total_index, R_current, V0_current, rng>>
    /\ UNCHANGED callVars
    /\ UNCHANGED twoVars
    /\ UNCHANGED dashVars

\* the loop is over with no pulse: np.concatenate([]) raises ValueError
ConcatenateRaises ==
    /\ pc = "loop"
    /\ ~(beat < args.num_beats)
    /\ t_global = <<>>
    /\ pc' = "error"
    /\ error' = "ValueError"
    /\ UNCHANGED <<args, beat, t_global, V_global, R_values, V0_used,
                   beat_boundaries, t_offset, total_index, R_current, V0_current,
                   t_total, V_total, rng>>
    /\ UNCHANGED callVars
    /\ UNCHANGED twoVars
    /\ UNCHANGED dashVars

Next == Beat \/ Return \/ ConcatenateRaises

Spec == Init /\ [][Next]_vars

\* ------------------------------------------------------------------------
\* Concurrent invocations of simulate_multiple_beats. Each has its own
\* locals; np.random.uniform reads and advances numpy's global random state,
\* which is the seed it was started from and the number of values consumed
\* (rng). Steps interleave beat by beat.
\* ------------------------------------------------------------------------
Invocations == {"A", "B"}

TwoArgs ==
    { BaseArgs,
      [BaseArgs EXCEPT !.arrhythmia_mode = TRUE],
      [BaseArgs EXCEPT !.use_feedback = TRUE, !.V0_user = 20000] }

\* the value the random source started from sd yields as its (k+1)-th value
RandomValue(sd, k) == (sd + k) % UGrid

\* the locals of an invocation on entry to the loop
Start(a) ==
    [args |-> a, pc |-> "loop", error |-> "none", beat |-> 0,
     t_global |-> <<>>, V_global |-> <<>>, R_values |-> <<>>, V0_used |-> <<>>,
     beat_boundaries |-> <<>>, t_offset |-> 0, total_index |-> 0,
     t_total |-> <<>>, V_total |-> <<>>]

\* one iteration of the loop on the locals s; n is the value drawn
BeatOf(s, n) ==
    LET R == SelectResistance(s.args, n)
        V0 == SelectVoltage(s.args, R)
        pulse == SinglePulse(V0, R, s.args.C, T_MAX, NUM_POINTS)
        t_pulse_shifted == ShiftTime(pulse.t, s.t_offset)
        pulse_length == Len(pulse.t)
        bounds == Boundary(s.total_index, pulse_length)
    IN  [s EXCEPT !.t_global = Append(@, t_pulse_shifted),
                  !.V_global = Append(@, pulse.Vc),
                  !.R_values = @ \o Repeat(R, pulse_length),
                  !.V0_used = @ \o Repeat(V0, pulse_length),
                  !.beat_boundaries = Append(@, bounds),
                  !.total_index = bounds[2],
                  !.t_offset = NextOffset(@, s.args.interval),
                  !.beat = @ + 1]

\* the concatenation and the return, or the ValueError of np.concatenate([])
FinishOf(s) ==
    IF s.t_global = <<>> THEN [s EXCEPT !.pc = "error", !.error = "ValueError"]
    ELSE [s EXCEPT !.t_total = Concatenate(s.t_global),
                   !.V_total = Concatenate(s.V_global),
                   !.pc = "done"]

\* return t_total, V_total, R_values, V0_used, beat_boundaries
Result(s) == <<s.t_total, s.V_total, s.R_values, s.V0_used, s.beat_boundaries>>

\* the whole call run on its own from the random state (sd, r)
RECURSIVE RunAlone(_, _, _)
RunAlone(s, sd, r) ==
    IF s.beat < s.args.num_beats
    THEN RunAlone(BeatOf(s, RandomValue(sd, r)), sd, NextRng(s.args, r))
    ELSE FinishOf(s)

InitTwo ==
    /\ inv \in [Invocations -> {Start(a) : a \in TwoArgs}]
    /\ seed \in 0..(UGrid - 1)
    /\ rng = 0
    /\ args = NoArgs
    /\ pc = "idle"
    /\ error = "none"
    /\ beat = 0
    /\ t_global = <<>>
    /\ V_global = <<>>
    /\ R_values = <<>>
    /\ V0_used = <<>>
    /\ beat_boundaries = <<>>
    /\ t_offset = 0
    /\ total_index = 0
    /\ R_current = 0
    /\ V0_current = 0
    /\ t_total = <<>>
    /\ V_total = <<>>
    /\ call = NoCall
    /\ cpc = "idle"
    /\ ret = <<>>
    /\ call2 = NoCall
    /\ ret2 = <<>>
    /\ metrics = NoMetrics
    /\ view = NoView

\* invocation i runs one iteration of its loop
TwoBeat(i) ==
    /\ inv[i].pc = "loop"
    /\ inv[i].beat < inv[i].args.num_beats
    /\ inv' = [inv EXCEPT ![i] = BeatOf(@, RandomValue(seed, rng))]
    /\ rng' = NextRng(inv[i].args, rng)
    /\ UNCHANGED seed
    /\ UNCHANGED <<args, pc, error, beat, t_global, V_global, R_values, V0_used,
                   beat_boundaries, t_offset, total_index, R_current, V0_current,
                   t_total, V_total>>
    /\ UNCHANGED callVars
    /\ UNCHANGED dashVars

\* invocation i leaves its loop and returns
TwoFinish(i) ==
    /\ inv[i].pc = "loop"
    /\ ~(inv[i].beat < inv[i].args.num_beats)
    /\ inv' = [inv EXCEPT ![i] = FinishOf(@)]
    /\ UNCHANGED seed
    /\ UNCHANGED simVars
    /\ UNCHANGED callVars
    /\ UNCHANGED dashVars

NextTwo == \E i \in Invocations : TwoBeat(i) \/ TwoFinish(i)

SpecTwo == InitTwo /\ [][NextTwo]_vars

\* ------------------------------------------------------------------------
\* Direct calls of the pure functions
\* ------------------------------------------------------------------------
PulseCalls ==
    { [fn |-> "single_pulse", V0 |-> v, R |-> r, C |-> c,
       t_max |-> w[1], num_points |-> w[2]] :
          v \in {10000, 27183, 50000}, r \in {-500, 0, 1, 500, 1000},
          c \in {-20, 0, 20},
          w \in {<<199, 200>>, <<398, 200>>, <<199, 2>>, <<398, 3>>, <<199, 3>>} }

FeedbackCalls ==
    { [fn |-> "adaptive_feedback", V0_target |-> v, R |-> r, C |-> c, V_min |-> m] :
          v \in {0, 10000, 20000, 27183, 30000, 50000},
          r \in {300, 500}, c \in {10, 20},
          m \in {0, 5000, 10000, 20000, 30000} }

\* the clinical presets of the dashboard: V0, R, C in uF, with V_min = 1.0
PresetCalls ==
    { [fn |-> "validate_parameters", V0 |-> q[1], R |-> q[2], C |-> q[3],
       V_min |-> 10000] :
          q \in { <<50000, 500, 20>>, <<60000, 600, 22>>, <<45000, 450, 18>>,
                  <<55000, 700, 25>>, <<70000, 800, 25>> } }

ValidateCalls ==
    PresetCalls
    \cup { [fn |-> "validate_parameters", V0 |-> v, R |-> r, C |-> 20, V_min |-> m] :
               v \in {20000, 50000, 160000}, r \in {5, 10, 25, 50, 300, 1000},
               m \in {10000, 20000} }

CallSet == PulseCalls \cup FeedbackCalls \cup ValidateCalls

InitCall ==
    /\ call \in CallSet
    /\ cpc = "call"
    /\ ret = <<>>
    /\ call2 = NoCall
    /\ ret2 = <<>>
    /\ inv = <<>>
    /\ seed = 0
    /\ metrics = NoMetrics
    /\ view = NoView
    /\ args = NoArgs
    /\ pc = "idle"
    /\ error = "none"
    /\ beat = 0
    /\ t_global = <<>>
    /\ V_global = <<>>
    /\ R_values = <<>>
    /\ V0_used = <<>>
    /\ beat_boundaries = <<>>
    /\ t_offset = 0
    /\ total_index = 0
    /\ R_current = 0
    /\ V0_current = 0
    /\ t_total = <<>>
    /\ V_total = <<>>
    /\ rng = 0

CallSinglePulse ==
    /\ cpc = "call"
    /\ call.fn = "single_pulse"
    /\ ret' = SinglePulse(call.V0, call.R, call.C, call.t_max, call.num_points)
    /\ cpc' = "returned"
    /\ UNCHANGED <<call, call2, ret2>>
    /\ UNCHANGED simVars
    /\ UNCHANGED twoVars
    /\ UNCHANGED dashVars

CallAdaptiveFeedback ==
    /\ cpc = "call"
    /\ call.fn = "adaptive_feedback"
    /\ ret' = AdaptiveFeedback(call.V0_target, call.R, call.C, call.V_min)
    /\ cpc' = "returned"
    /\ UNCHANGED <<call, call2, ret2>>
    /\ UNCHANGED simVars
    /\ UNCHANGED twoVars
    /\ UNCHANGED dashVars

\* adaptive_feedback applied to its own result, same R, C and V_min
CallFeedbackAgain ==
    /\ cpc = "returned"
    /\ call.fn = "adaptive_feedback"
    /\ call2' = [call EXCEPT !.V0_target = ret]
    /\ ret2' = AdaptiveFeedback(ret, call.R, call.C, call.V_min)
    /\ cpc' = "returned2"
    /\ UNCHANGED <<call, ret>>
    /\ UNCHANGED simVars
    /\ UNCHANGED twoVars
    /\ UNCHANGED dashVars

\* adaptive_feedback called again with the same V0_target and V_min for
\* another circuit
CallFeedbackOtherCircuit ==
    /\ cpc = "returned"
    /\ call.fn = "adaptive_feedback"
    /\ \E r \in {300, 500, 650}, c \in {10, 20} :
          /\ <<r, c>> # <<call.R, call.C>>
          /\ call2' = [call EXCEPT !.R = r, !.C = c]
          /\ ret2' = AdaptiveFeedback(call.V0_target, r, c, call.V_min)
    /\ cpc' = "returned2"
    /\ UNCHANGED <<call, ret>>
    /\ UNCHANGED simVars
    /\ UNCHANGED twoVars
    /\ UNCHANGED dashVars

CallValidateParameters ==
    /\ cpc = "call"
    /\ call.fn = "validate_parameters"
    /\ ret' = ValidateParameters(call.V0, call.R, call.C, call.V_min)
    /\ cpc' = "returned"
    /\ UNCHANGED <<call, call2, ret2>>
    /\ UNCHANGED simVars
    /\ UNCHANGED twoVars
    /\ UNCHANGED dashVars

NextCall ==
    \/ CallSinglePulse
    \/ CallAdaptiveFeedback
    \/ CallValidateParameters
    \/ CallFeedbackAgain
    \/ CallFeedbackOtherCircuit

SpecCall == InitCall /\ [][NextCall]_vars

\* simulations and direct calls together
SpecAll == (Init \/ InitCall) /\ [][Next \/ NextCall]_vars

\* ------------------------------------------------------------------------
\* The dashboard: one run of the script with the values of the sidebar, the
\* simulation, then the energy metrics and the rendering of the tabs.
\* ------------------------------------------------------------------------
\* values the sidebar sliders and checkboxes can hold
DashArgs ==
    { a \in [V0_user : {10000, 20000, 50000, 100000}, R_base : {500}, C : {20},
             num_beats : 1..MaxBeats, interval : {1990, 3980},
             use_feedback : BOOLEAN, V_min : {5000, 10000, 30000},
             arrhythmia_mode : BOOLEAN, R_min : {300}, R_max : {1000}] :
        /\ (~a.use_feedback => a.V_min = 10000)
        /\ (a.interval = 1990 => a.V0_user \in {20000, 50000} /\ a.V_min = 10000)
        /\ (a.arrhythmia_mode =>
              a.V0_user = 50000 /\ a.use_feedback /\ a.V_min = 10000
              /\ a.interval = 3980) }

InitDash ==
    /\ args \in DashArgs
    /\ pc = "loop"
    /\ error = "none"
    /\ beat = 0
    /\ t_global = <<>>
    /\ V_global = <<>>
    /\ R_values = <<>>
    /\ V0_used = <<>>
    /\ beat_boundaries = <<>>
    /\ t_offset = 0
    /\ total_index = 0
    /\ R_current = 0
    /\ V0_current = 0
    /\ t_total = <<>>
    /\ V_total = <<>>
    /\ rng = 0
    /\ call = NoCall
    /\ cpc = "idle"
    /\ ret = <<>>
    /\ call2 = NoCall
    /\ ret2 = <<>>
    /\ inv = <<>>
    /\ seed = 0
    /\ metrics = NoMetrics
    /\ view = NoView

\* calculate_energy_metrics(t, V, R_vals) on the returned series
CallEnergyMetrics ==
    /\ pc = "done"
    /\ ~metrics.computed
    /\ metrics' = CalculateEnergyMetrics(t_total, V_total, R_values)
    /\ UNCHANGED view
    /\ UNCHANGED simVars
    /\ UNCHANGED callVars
    /\ UNCHANGED twoVars

\* t[start:end]
Slice(q, b) == SubSeq(q, b[1] + 1, b[2])

\* the tabs: the voltage-at-tau metric and the status banner of tab 1, the
\* energy per beat and its total of tab 2, the cumulative energy of tab 4
Render ==
    /\ pc = "done"
    /\ ~view.rendered
    /\ LET V_at_tau == Mul(args.V0_user, Exp(-1, 1))
           effective == V_at_tau >= args.V_min
           energy_per_beat ==
               [i \in DOMAIN beat_boundaries |->
                   LET b == beat_boundaries[i]
                       e == IntegratePower(Slice(t_total, b), Slice(V_total, b),
                                           Slice(R_values, b))
                   IN  e[Len(e)]]
           energy_acum == IntegratePower(t_total, V_total, R_values)
       IN  view' = [rendered |-> TRUE,
                    V_at_tau |-> V_at_tau,
                    V_at_tau_text |-> DivRound(V_at_tau, 100),
                    V_at_tau_delta |-> IF effective THEN "Efectivo" ELSE "Insuficiente",
                    banner |-> IF args.use_feedback
                               THEN "Sistema de Realimentacion Activo"
                               ELSE IF effective THEN "Estimulacion Efectiva"
                               ELSE "Riesgo de Estimulacion Insuficiente",
                    energy_per_beat |-> energy_per_beat,
                    total_energy |-> SeqSum(energy_per_beat),
                    energy_acum |-> energy_acum]
    /\ UNCHANGED metrics
    /\ UNCHANGED simVars
    /\ UNCHANGED callVars
    /\ UNCHANGED twoVars

NextDash == Beat \/ Return \/ CallEnergyMetrics \/ Render

SpecDash == InitDash /\ [][NextDash]_vars

\* ------------------------------------------------------------------------
\* Properties
\* ------------------------------------------------------------------------
Returned == pc = "done"
Ended == pc \in {"done", "error"}

\* C1: a call with num_beats = N >= 1 returns exactly N beat boundaries, in
\* beat order, each of width 200, the first starting at 0, each starting where
\* the previous one ends, the last ending at N * 200, the length of the
\* concatenated series.
C1_BeatBoundaries ==
    (Returned /\ args.num_beats >= 1) =>
        /\ Len(beat_boundaries) = args.num_beats
        /\ \A i \in 1..Len(beat_boundaries) :
              /\ beat_boundaries[i][2] - beat_boundaries[i][1] = 200
              /\ beat_boundaries[i][1] = (i - 1) * 200
              /\ i > 1 => beat_boundaries[i][1] = beat_boundaries[i - 1][2]
        /\ beat_boundaries[1][1] = 0
        /\ beat_boundaries[args.num_beats][2] = args.num_beats * 200
        /\ Len(t_total) = args.num_beats * 200

C1_Witness ==
    /\ Returned
    /\ args.num_beats = 3
    /\ beat_boundaries = << <<0, 200>>, <<200, 400>>, <<400, 600>> >>

\* C2: with use_feedback on, the applied initial voltage of every beat is at
\* least V_min * e, and so its value at one time constant, V0_i * exp(-1), is
\* at least V_min, in or out of arrhythmia mode.
C2_FeedbackFloor ==
    LET floor == Mul(args.V_min, E)
        einv == Exp(-1, 1)
    IN  args.use_feedback =>
            \A j \in 1..Len(V0_used) :
                /\ V0_used[j] >= floor
                /\ Mul(V0_used[j], einv) >= args.V_min

C2_Witness ==
    /\ Returned
    /\ args.use_feedback
    /\ args.arrhythmia_mode
    /\ args.V0_user = 20000
    /\ args.V_min = 10000
    /\ args.num_beats = 2
    /\ R_values[1] # R_values[201]
    /\ V0_used[1] = 27183
    /\ V0_used[201] = 27183

\* C3: the four returned series time, voltage, resistance and appliedV0 have
\* the same length, num_beats * 200.
C3_ParallelSeries ==
    Returned =>
        /\ Len(t_total) = args.num_beats * 200
        /\ Len(V_total) = args.num_beats * 200
        /\ Len(R_values) = args.num_beats * 200
        /\ Len(V0_used) = args.num_beats * 200

C3_Witness ==
    /\ Returned
    /\ args.num_beats = 2
    /\ Len(t_total) = 400
    /\ Len(V0_used) = 400

\* C4: for R > 0 and C > 0 every sample of a single pulse satisfies
\* voltage[i] = V0 * exp(-time[i] / (R * C)).
C4_ClosedForm ==
    (cpc = "returned" /\ call.fn = "single_pulse" /\ call.R > 0 /\ call.C > 0) =>
        /\ Len(ret.Vc) = Len(ret.t)
        /\ \A i \in 1..Len(ret.t) :
              ret.Vc[i] = Mul(call.V0, Exp(-(ret.t[i] * TickMicroNum),
                                           TickMicroDen * (call.R * call.C)))

C4_Witness ==
    /\ cpc = "returned"
    /\ call.fn = "single_pulse"
    /\ call.V0 = 50000 /\ call.R = 500 /\ call.C = 20
    /\ call.num_points = 200 /\ call.t_max = 199
    /\ ret.Vc[1] = 50000
    /\ ret.Vc[200] = 335

\* C5: for interval >= 0 the call is accepted, the offset starts at 0 and grows
\* by interval after every beat, so sample k of beat i has global time
\* t_local[k] + i * interval; the first sample of beat i is i * interval, and
\* with interval = 0 all beats carry the same time values.
C5_TimeOffset ==
    LET t_local == Linspace(T_MAX, NUM_POINTS)
    IN  args.interval >= 0 =>
            /\ t_offset = beat * args.interval
            /\ \A i \in 1..Len(t_global) :
                  /\ t_global[i][1] = (i - 1) * args.interval
                  /\ \A k \in 1..200 :
                        t_global[i][k] = t_local[k] + (i - 1) * args.interval
                  /\ args.interval = 0 => t_global[i] = t_global[1]
            /\ Returned =>
                  \A i \in 1..args.num_beats : \A k \in 1..200 :
                      t_total[(i - 1) * 200 + k] = t_local[k] + (i - 1) * args.interval
            /\ args \in ValidArgs => error = "none"

C5_Witness ==
    /\ Returned
    /\ args.interval = TicksPerSecond
    /\ args.num_beats = 3
    /\ t_total[1] = 0
    /\ t_total[201] = 3980
    /\ t_total[401] = 7960
    /\ t_total[600] = 7960 + 199

\* C6: for V_min >= 0, adaptive_feedback returns the larger of V0_target and
\* V_min * e: never less than V0_target, and V_min * e exactly when V0_target is
\* below it (V0_target = 2.0, V_min = 1.0 gives e; V0_target = 5.0 stays 5.0).
C6_FeedbackMax ==
    (cpc = "returned" /\ call.fn = "adaptive_feedback" /\ call.V_min >= 0) =>
        /\ ret >= call.V0_target
        /\ call.V0_target < Mul(call.V_min, E) => ret = Mul(call.V_min, E)
        /\ call.V0_target >= Mul(call.V_min, E) => ret = call.V0_target
        /\ (call.V0_target = 20000 /\ call.V_min = 10000) => ret = 27183
        /\ (call.V0_target = 50000 /\ call.V_min = 10000) => ret = 50000

C6_Witness ==
    /\ cpc = "returned"
    /\ call.fn = "adaptive_feedback"
    /\ call.V0_target = 20000
    /\ call.V_min = 10000
    /\ ret = 27183

\* C7: single_pulse signals InvalidParameter, and returns no pulse, whenever
\* R <= 0 or C <= 0.
C7_PulseRejectsInvalid ==
    (call.fn = "single_pulse" /\ (call.R <= 0 \/ call.C <= 0)) => cpc # "returned"

\* C8: a call with num_beats < 1 fails with InvalidParameter, raised by
\* validation before any beat is computed, and never returns a result.
C8_NoBeatsInvalidParameter ==
    (args.num_beats < 1 /\ Ended) =>
        /\ pc = "error"
        /\ error = "InvalidParameter"
        /\ beat = 0

\* C9: simulate_multiple_beats raises InvalidParameter and returns no result
\* when interval < 0, when R_base <= 0 or C <= 0, or when arrhythmia_mode is
\* set and not (0 < R_min <= R_max).
C9_SimulateRejectsInvalid ==
    ( \/ args.interval < 0
      \/ args.R_base <= 0
      \/ args.C <= 0
      \/ (args.arrhythmia_mode /\ ~(0 < args.R_min /\ args.R_min <= args.R_max)) ) =>
        /\ ~Returned
        /\ Ended => error = "InvalidParameter"

\* C10: without arrhythmia mode every beat uses R_base, so the resistance series
\* is constant at R_base; in arrhythmia mode every beat's resistance lies in
\* [R_min, R_max], so with R_min = R_max = 500 the series is constant at 500.
C10_ResistanceSelection ==
    /\ ~args.arrhythmia_mode =>
          \A j \in 1..Len(R_values) : R_values[j] = args.R_base
    /\ (args.arrhythmia_mode /\ args.R_min <= args.R_max) =>
          \A j \in 1..Len(R_values) :
              /\ args.R_min <= R_values[j]
              /\ R_values[j] <= args.R_max
              /\ (args.R_min = 500 /\ args.R_max = 500) => R_values[j] = 500

C10_Witness ==
    /\ Returned
    /\ args.arrhythmia_mode
    /\ args.R_min = 300 /\ args.R_max = 1000
    /\ args.num_beats = 2
    /\ R_values[1] = 650
    /\ R_values[201] = 300

\* C11: voltage selection does no silent clamping: with use_feedback off every
\* entry of appliedV0 is V0_user whatever V_min is; with use_feedback on it is
\* adaptive_feedback(V0_user, R_i, C, V_min) for the beat's resistance R_i.
C11_VoltageSelection ==
    /\ ~args.use_feedback =>
          \A j \in 1..Len(V0_used) : V0_used[j] = args.V0_user
    /\ args.use_feedback =>
          /\ Len(V0_used) = Len(R_values)
          /\ \A j \in 1..Len(V0_used) :
                V0_used[j] = AdaptiveFeedback(args.V0_user, R_values[j], args.C, args.V_min)

\* feedback off, V0_user = 2.0 V below the floor V_min * e = 2.7183 V, left as is
C11_Witness ==
    /\ Returned
    /\ ~args.use_feedback
    /\ args.V0_user = 20000
    /\ args.V_min = 10000
    /\ args.num_beats = 3
    /\ V0_used[1] = 20000
    /\ V0_used[600] = 20000

\* C12: the beat appended by an iteration has its boundary inside the series,
\* and at every index of that boundary resistance is the R_current and appliedV0
\* the V0_current the pulse was generated with; entries of earlier beats never
\* change afterwards.
C12_Broadcast ==
    [][ /\ Len(R_values') >= Len(R_values)
        /\ Len(V0_used') >= Len(V0_used)
        /\ \A j \in 1..Len(R_values) : R_values'[j] = R_values[j]
        /\ \A j \in 1..Len(V0_used) : V0_used'[j] = V0_used[j]
        /\ beat' # beat =>
              /\ Len(beat_boundaries') = beat'
              /\ beat_boundaries'[beat'][1] >= 0
              /\ beat_boundaries'[beat'][2] <= Len(R_values')
              /\ beat_boundaries'[beat'][2] <= Len(V0_used')
              /\ \A j \in beat_boundaries'[beat'][1]..(beat_boundaries'[beat'][2] - 1) :
                    /\ R_values'[j + 1] = R_current'
                    /\ V0_used'[j + 1] = V0_current' ]_vars

C12_Witness ==
    /\ Returned
    /\ args.arrhythmia_mode
    /\ args.use_feedback
    /\ args.num_beats = 2
    /\ beat_boundaries = << <<0, 200>>, <<200, 400>> >>
    /\ \A j \in 0..199 : R_values[j + 1] = 650 /\ V0_used[j + 1] = 27183
    /\ \A j \in 200..399 : R_values[j + 1] = 300 /\ V0_used[j + 1] = 27183
    /\ R_current = 300

PulseReturned == cpc = "returned" /\ call.fn = "single_pulse"

\* the pulse in `ret` starts at V0, decreases strictly and ends above 0
DecaysStrictly ==
    /\ ret.Vc[1] = call.V0
    /\ \A i \in 1..(Len(ret.Vc) - 1) :
          /\ ret.t[i] < ret.t[i + 1]
          /\ ret.Vc[i] > ret.Vc[i + 1]
    /\ ret.Vc[Len(ret.Vc)] > 0

\* C13 as stated: for all V0 > 0, R > 0, C > 0 the voltage sequence of a single
\* pulse is strictly decreasing along increasing time, starts at V0 and its
\* last sample is > 0.
C13_DecayAllValid ==
    (PulseReturned /\ call.V0 > 0 /\ call.R > 0 /\ call.C > 0) => DecaysStrictly

\* C13 amended: the same, for time constants the arithmetic resolves over the
\* window, t_max / (R * C) <= 5; voltage[0] = V0 for every R > 0, C > 0.
C13_DecayResolved ==
    (PulseReturned /\ call.V0 > 0 /\ call.R > 0 /\ call.C > 0) =>
        /\ ret.Vc[1] = call.V0
        /\ call.t_max * TickMicroNum <= 5 * TickMicroDen * (call.R * call.C)
              => DecaysStrictly

C13_Witness ==
    /\ PulseReturned
    /\ call.V0 = 10000 /\ call.R = 500 /\ call.C = 20
    /\ call.t_max = 199 /\ call.num_points = 200
    /\ ret.Vc[1] = 10000
    /\ ret.Vc[199] > ret.Vc[200]
    /\ ret.Vc[200] = 67

\* C14: for num_points >= 2 and t_max > 0, single_pulse returns num_points time
\* values and as many voltages; time[0] = 0, time[num_points - 1] = t_max, and
\* the values are evenly spaced: each is the grid value nearest to
\* k * t_max / (num_points - 1), exactly that value when it is on the grid.
C14_TimeAxis ==
    (PulseReturned /\ call.num_points >= 2 /\ call.t_max > 0) =>
        /\ Len(ret.t) = call.num_points
        /\ Len(ret.Vc) = call.num_points
        /\ ret.t[1] = 0
        /\ ret.t[call.num_points] = call.t_max
        /\ \A k \in 1..call.num_points :
              2 * Abs(ret.t[k] * (call.num_points - 1) - (k - 1) * call.t_max)
                  <= call.num_points - 1
        /\ ((call.t_max % (call.num_points - 1)) = 0) =>
              \A k \in 1..(call.num_points - 1) :
                  ret.t[k + 1] - ret.t[k] = call.t_max \div (call.num_points - 1)

C14_Witness ==
    /\ PulseReturned
    /\ call.t_max = 398 /\ call.num_points = 200
    /\ Len(ret.t) = 200
    /\ ret.t[1] = 0
    /\ ret.t[2] = 2
    /\ ret.t[100] = 198
    /\ ret.t[200] = 398

\* C15: adaptive_feedback is idempotent in its voltage argument: for V_min >= 0,
\* adjust(adjust(x, R, C, V_min), R, C, V_min) = adjust(x, R, C, V_min).
C15_Idempotent ==
    (cpc = "returned2" /\ call.fn = "adaptive_feedback" /\ call.V_min >= 0
        /\ call2 = [call EXCEPT !.V0_target = ret]) => ret2 = ret

\* adjust(2.0 V) = e V (raised), and adjust(e V) = e V again
C15_Witness ==
    /\ cpc = "returned2"
    /\ call.fn = "adaptive_feedback"
    /\ call.V0_target = 20000 /\ call.V_min = 10000
    /\ ret = 27183
    /\ call2.V0_target = 27183 /\ call2.R = call.R /\ call2.C = call.C
    /\ ret2 = 27183

\* C16: the result of adaptive_feedback does not depend on R or C: two calls
\* with the same V0_target and V_min and different R, C return the same
\* voltage; so within a simulation with feedback on every beat gets the same
\* applied V0, also when arrhythmia mode varies R from beat to beat.
C16_CircuitIndependent ==
    /\ (cpc = "returned2" /\ call.fn = "adaptive_feedback"
          /\ call2.V0_target = call.V0_target /\ call2.V_min = call.V_min) =>
            ret2 = ret
    /\ (pc # "idle" /\ args.use_feedback) =>
            \A j \in 1..Len(V0_used) : V0_used[j] = V0_used[1]

C16_Witness ==
    /\ cpc = "returned2"
    /\ call.fn = "adaptive_feedback"
    /\ call.V0_target = 20000 /\ call.V_min = 10000
    /\ call.R = 500 /\ call.C = 20
    /\ call2.V0_target = 20000 /\ call2.V_min = 10000
    /\ call2.R = 650 /\ call2.C = 10
    /\ ret = 27183
    /\ ret2 = 27183

\* C17: with arrhythmia_mode = False the model is deterministic: invocations
\* with identical arguments return identical results, and the result is the
\* one the arguments alone determine, whatever the random source holds and
\* whatever other invocations ran before or between.
C17_Deterministic ==
    \A i \in DOMAIN inv :
        (inv[i].pc = "done" /\ ~inv[i].args.arrhythmia_mode) =>
            /\ \A j \in DOMAIN inv :
                  (inv[j].pc = "done" /\ inv[j].args = inv[i].args) =>
                      Result(inv[j]) = Result(inv[i])
            /\ Result(inv[i]) = Result(RunAlone(Start(inv[i].args), 0, 0))

\* two identical invocations without arrhythmia, the random source seeded
\* with 1, both returned
C17_Witness ==
    /\ DOMAIN inv = Invocations
    /\ seed = 1
    /\ inv["A"].args = BaseArgs /\ inv["B"].args = BaseArgs
    /\ inv["A"].pc = "done" /\ inv["B"].pc = "done"
    /\ Len(inv["A"].t_total) = 400
    /\ inv["A"].R_values[1] = 500 /\ inv["B"].R_values[400] = 500

\* what invocation i would return had it run alone from the same random state
AloneResult(i) == Result(RunAlone(Start(inv[i].args), seed, 0))

\* C18 as stated: under any interleaving every invocation, arrhythmia mode
\* included, returns what it would have returned alone.
C18_Isolated ==
    \A i \in DOMAIN inv : inv[i].pc = "done" => Result(inv[i]) = AloneResult(i)

\* C18: the one piece of state invocations share is numpy's global random
\* source, read and advanced only in arrhythmia mode. An invocation returns
\* what it would have returned alone when it is not in arrhythmia mode or no
\* other invocation is; in every case its time axis and beat boundaries are
\* those of the run alone.
C18_IsolatedResolved ==
    \A i \in DOMAIN inv :
        inv[i].pc = "done" =>
            /\ (~inv[i].args.arrhythmia_mode
                  \/ \A j \in DOMAIN inv \ {i} : ~inv[j].args.arrhythmia_mode) =>
                    Result(inv[i]) = AloneResult(i)
            /\ inv[i].t_total = AloneResult(i)[1]
            /\ inv[i].beat_boundaries = AloneResult(i)[5]

\* an arrhythmia invocation returned after a plain one ran its two beats
C18_Witness ==
    /\ DOMAIN inv = Invocations
    /\ seed = 0
    /\ inv["A"].args.arrhythmia_mode /\ ~inv["B"].args.arrhythmia_mode
    /\ inv["A"].pc = "done" /\ inv["B"].beat = 2
    /\ rng = 2
    /\ inv["A"].R_values[1] = 300 /\ inv["A"].R_values[201] = 650

\* C19: the only side effect of simulate_multiple_beats is on the random
\* source: without arrhythmia mode no step draws and the source stays as it
\* was; with it each beat draws exactly one value, num_beats values by the
\* return, and no step changes anything else outside the call's locals.
C19_RandomSourceOnly ==
    [][ /\ args' = args
        /\ (~args.arrhythmia_mode => rng' = rng)
        /\ (args.arrhythmia_mode => rng' = rng + (beat' - beat))
        /\ (args.arrhythmia_mode /\ pc' = "done" => rng' = args.num_beats)
        /\ beat' \in {beat, beat + 1}
        /\ UNCHANGED callVars
        /\ UNCHANGED twoVars
        /\ UNCHANGED dashVars ]_vars

\* three beats in arrhythmia mode returned, three values drawn
C19_Witness ==
    /\ Returned
    /\ args.arrhythmia_mode
    /\ args.num_beats = 3
    /\ beat = 3
    /\ rng = 3

\* C20: beats appear in the output in generation order, beat i before beat
\* i+1, and for interval >= 0 the global times within each beat's index range
\* are strictly increasing.
C20_Ordering ==
    (Returned /\ args.interval >= 0) =>
        LET n == Len(beat_boundaries) IN
        /\ n = args.num_beats
        /\ \A i \in 1..(n - 1) : beat_boundaries[i][2] <= beat_boundaries[i + 1][1]
        /\ \A i \in 1..n :
              LET b == beat_boundaries[i] IN
              /\ b[1] < b[2]
              /\ b[2] <= Len(t_total)
              /\ \A k \in 1..(b[2] - b[1]) :
                    /\ t_total[b[1] + k] = t_global[i][k]
                    /\ V_total[b[1] + k] = V_global[i][k]
              /\ \A j \in (b[1] + 1)..(b[2] - 1) : t_total[j] < t_total[j + 1]

\* three beats 0.05 s apart: each beat's times increase, and the last sample
\* of a beat has the time of the first sample of the next
C20_Witness ==
    /\ Returned
    /\ args.num_beats = 3
    /\ args.interval = 199
    /\ t_total[1] = 0 /\ t_total[2] = 1
    /\ t_total[200] = 199 /\ t_total[201] = 199
    /\ t_total[600] = 597

NonDecreasing(t) == \A j \in 1..(Len(t) - 1) : t[j] <= t[j + 1]

\* C22: the concatenated time series is nondecreasing if and only if
\* num_beats = 1 or interval >= 0.05 s (the pulse window); for num_beats >= 2
\* and 0 <= interval < 0.05 s the first time of beat i+1 is smaller than the
\* last time of beat i.
C22_TimeMonotone ==
    Returned =>
        /\ NonDecreasing(t_total) <=> (args.num_beats = 1 \/ args.interval >= T_MAX)
        /\ (args.num_beats >= 2 /\ 0 <= args.interval /\ args.interval < T_MAX) =>
              \A i \in 1..(Len(beat_boundaries) - 1) :
                  t_total[beat_boundaries[i + 1][1] + 1] < t_total[beat_boundaries[i][2]]

\* two beats 100 ticks apart: the second starts before the first has ended
C22_Witness ==
    /\ Returned
    /\ args.num_beats = 2
    /\ args.interval = 100
    /\ t_total[200] = 199
    /\ t_total[201] = 100
    /\ ~NonDecreasing(t_total)

\* C23: the returned series agree sample by sample: in beat i (from 0) with
\* boundary (start, end), voltage[j] = appliedV0[j] * exp(-(time[j] -
\* i*interval) / (resistance[j]*C)) for j in [start, end); voltage[start] =
\* appliedV0[start]; the maximum voltage is the maximum applied V0. Stated
\* for positive resistances and capacitance.
C23_SeriesConsistent ==
    (Returned /\ args.C > 0 /\ \A j \in DOMAIN R_values : R_values[j] > 0) =>
        /\ \A i \in DOMAIN beat_boundaries :
              LET b == beat_boundaries[i] IN
              /\ V_total[b[1] + 1] = V0_used[b[1] + 1]
              /\ \A j \in (b[1] + 1)..b[2] :
                    V_total[j] =
                        Mul(V0_used[j],
                            ExpDecay(t_total[j] - (i - 1) * args.interval,
                                     R_values[j] * args.C))
        /\ SeqMax(V_total) = SeqMax(V0_used)

\* arrhythmia with feedback: the second beat has another resistance and the
\* samples at its start and one tau (about 40 ticks at 500 ohm) later
C23_Witness ==
    /\ Returned
    /\ args.arrhythmia_mode /\ args.use_feedback
    /\ args.num_beats = 2
    /\ R_values[1] = 650 /\ R_values[201] = 300
    /\ V_total[1] = 27183 /\ V_total[201] = 27183
    /\ V_total[202] < V_total[2]
    /\ SeqMax(V_total) = 27183

\* C21: calculate_energy_metrics returns the running integral of power over
\* time: cumulativeEnergy[k] is the sum over i <= k of voltage[i]^2 /
\* resistance[i] * dt[i], with dt[i] = (time[i+1] - time[i-1]) / 2 inside and
\* the one-sided difference at the two ends, and totalEnergy is its last
\* entry. (dt is doubled here, as in Gradient.)
C21_EnergyIntegral ==
    metrics.computed =>
        LET n == Len(t_total)
            dt(k) == IF k = 1 THEN 2 * (t_total[2] - t_total[1])
                     ELSE IF k = n THEN 2 * (t_total[n] - t_total[n - 1])
                     ELSE t_total[k + 1] - t_total[k - 1]
            term(k) == Power(V_total[k], R_values[k]) * dt(k)
        IN  /\ Len(metrics.power) = n
            /\ Len(metrics.energy_cumulative) = n
            /\ \A k \in 1..n : metrics.power[k] = Power(V_total[k], R_values[k])
            /\ metrics.energy_cumulative[1] = term(1)
            /\ \A k \in 2..n :
                  metrics.energy_cumulative[k] =
                      metrics.energy_cumulative[k - 1] + term(k)
            /\ metrics.total_energy = metrics.energy_cumulative[n]

\* two beats of 5 V into 500 ohm one second apart: 0.05 W at each onset, one
\* tick of dt at the first sample, 3782 half ticks at the onset of beat two
C21_Witness ==
    /\ metrics.computed
    /\ args.V0_user = 50000 /\ ~args.use_feedback /\ ~args.arrhythmia_mode
    /\ args.num_beats = 2 /\ args.interval = 3980
    /\ metrics.power[1] = 5000 /\ metrics.power[201] = 5000
    /\ metrics.energy_cumulative[1] = 10000
    /\ metrics.energy_cumulative[201] - metrics.energy_cumulative[200] = 18910000
    /\ metrics.total_energy = metrics.energy_cumulative[400]

\* C24: for a multi-beat simulation (num_beats >= 2, interval >= 0.5 s) the
\* total energy integrated over the whole concatenated series (total_energy of
\* calculate_energy_metrics, the last cumulative energy of tab 4) equals the
\* sum of the energies of the beats integrated slice by slice (tab 2).
C24_WholeEqualsPerBeat ==
    (metrics.computed /\ view.rendered /\ args.num_beats >= 2
        /\ args.interval >= 1990) =>
            /\ metrics.total_energy = view.total_energy
            /\ view.energy_acum[Len(view.energy_acum)] = view.total_energy

\* C25: every clinical preset of the dashboard, with V_min = 1.0, passes
\* validate_parameters: is_effective, is_safe and is_duration_ok hold, so
\* overall_valid is true.
C25_PresetsValid ==
    (cpc = "returned" /\ call \in PresetCalls) =>
        /\ ret.is_effective
        /\ ret.is_safe
        /\ ret.is_duration_ok
        /\ ret.overall_valid

\* C26: with use_feedback on, the voltage-at-tau indicator shows the applied
\* V0 of the simulated beats times e^-1 and is labelled "Efectivo".
C26_IndicatorAgrees ==
    (view.rendered /\ args.use_feedback) =>
        /\ \A j \in DOMAIN V0_used :
              view.V_at_tau_text = DivRound(Mul(V0_used[j], Exp(-1, 1)), 100)
        /\ view.V_at_tau_delta = "Efectivo"

====
